---- MODULE Spec2Model ----
(***************************************************************************)
(* The Game class of comps-reveal (game.js): a lane-crossing game.  The    *)
(* player climbs a 15 x 10 grid, cars cross the lane rows, every upward    *)
(* step scores one point, the scores 10/20/30/40 pause the run to reveal   *)
(* a competition, and contact with a car ends the run.                     *)
(*                                                                         *)
(* The state is the fields of the Game object, the parts of the page the   *)
(* methods read or write (the 'active' class of the three screens, the     *)
(* text of the reveal modal, the keydown listener, localStorage's          *)
(* 'playthroughs' item) and the browser's table of live interval timers.   *)
(* Every method is an operator from a game record to the game record(s)    *)
(* it can leave behind; the handlers the browser calls (click, keydown,    *)
(* the two interval callbacks) are the actions.                            *)
(***************************************************************************)
EXTENDS Integers, Sequences, FiniteSets, TLC

VARIABLES
    isPlaying,            \* this.isPlaying
    isWaitingForInput,    \* this.isWaitingForInput
    score,                \* this.score
    playerRow,            \* this.playerRow
    playerCol,            \* this.playerCol
    cars,                 \* this.cars: the car objects {row, col, direction}
    revealedComps,        \* this.revealedComps: array of competition indices
    gameInterval,         \* this.gameInterval: "null", or a handle to a "live" or "cleared" timer
    carInterval,          \* this.carInterval: likewise
    gameTimers,           \* number of live movement interval timers in the browser
    carTimers,            \* number of live spawn interval timers in the browser
    playthroughs,         \* localStorage item 'playthroughs': NoItem or the stored number
    titleScreenActive,    \* #title-screen has class 'active'
    gameOverModalActive,  \* #game-over-modal has class 'active'
    revealModalActive,    \* #reveal-modal has class 'active'
    revealName,           \* text of #reveal-name
    keyListener,          \* handleKeyPress is registered for 'keydown'
    lastEvent,            \* history: what the last handler invocation did
    detours,              \* history: committed non-upward moves of this run
    loadedCount           \* history: the play count init() read when the page loaded

vars == <<isPlaying, isWaitingForInput, score, playerRow, playerCol, cars,
          revealedComps, gameInterval, carInterval, gameTimers, carTimers,
          playthroughs, titleScreenActive, gameOverModalActive,
          revealModalActive, revealName, keyListener, lastEvent, detours,
          loadedCount>>

(***************************************************************************)
(* Program constants                                                       *)
(***************************************************************************)
gridRows == 15
gridCols == 10
startRow == 14
startCol == 4
milestones == <<10, 20, 30, 40>>
competitions == <<"Nasha", "Blacksburg Ki Badmaash (BKB)", "River City Raas (RCR)", "Maryland Masti">>
scrollScore == 13
scrollRow == 5
scrollShift == 10
permanentRevealThreshold == 3
NoItem == -1
NoText == ""

(***************************************************************************)
(* Bounds of the explored environment                                      *)
(***************************************************************************)
\* ArrowUp is pressed only while the score is below MaxScore.
MaxScore == 20
\* At most MaxDetours committed sideways or downward moves per run.
MaxDetours == 2
\* Play Again is clicked only while fewer than MaxPlaythroughs runs are stored.
MaxPlaythroughs == 2

Keys == {"ArrowUp", "ArrowDown", "ArrowLeft", "ArrowRight", "Enter"}

\* Values of Math.floor(Math.random() * 4) drawn for numCars.
NumCarsDraws == 0 .. 3
\* Values of Math.floor(Math.random() * 12) drawn for a spawn row: of the
\* code's 0 .. 11 the explored runs draw 3, the row 4 that is the last one
\* whose cars a scroll-shift keeps.
RowDraws == {3}
\* Every value Math.floor(Math.random() * 12) can take.
AllRowDraws == 0 .. 11
\* Values of (Math.random() > 0.5) drawn for a direction.
CoinDraws == BOOLEAN
\* 'playthroughs' as found when the page loads: nothing stored yet.
StoredAtLoad == {NoItem}

Max(a, b) == IF a > b THEN a ELSE b
Min(a, b) == IF a < b THEN a ELSE b
Includes(s, x) == \E i \in 1 .. Len(s) : s[i] = x

(***************************************************************************)
(* The game record                                                         *)
(***************************************************************************)
This ==
    [isPlaying |-> isPlaying, isWaitingForInput |-> isWaitingForInput,
     score |-> score, playerRow |-> playerRow, playerCol |-> playerCol,
     cars |-> cars, revealedComps |-> revealedComps,
     gameInterval |-> gameInterval, carInterval |-> carInterval,
     gameTimers |-> gameTimers, carTimers |-> carTimers,
     playthroughs |-> playthroughs, titleScreenActive |-> titleScreenActive,
     gameOverModalActive |-> gameOverModalActive,
     revealModalActive |-> revealModalActive, revealName |-> revealName,
     keyListener |-> keyListener]

Commit(g) ==
    /\ isPlaying' = g.isPlaying
    /\ isWaitingForInput' = g.isWaitingForInput
    /\ score' = g.score
    /\ playerRow' = g.playerRow
    /\ playerCol' = g.playerCol
    /\ cars' = g.cars
    /\ revealedComps' = g.revealedComps
    /\ gameInterval' = g.gameInterval
    /\ carInterval' = g.carInterval
    /\ gameTimers' = g.gameTimers
    /\ carTimers' = g.carTimers
    /\ playthroughs' = g.playthroughs
    /\ titleScreenActive' = g.titleScreenActive
    /\ gameOverModalActive' = g.gameOverModalActive
    /\ revealModalActive' = g.revealModalActive
    /\ revealName' = g.revealName
    /\ keyListener' = g.keyListener

\* parseInt(localStorage.getItem('playthroughs') || '0')
PlaythroughsRead(g) == IF g.playthroughs = NoItem THEN 0 ELSE g.playthroughs

\* constructor
Constructed(stored) ==
    [isPlaying |-> FALSE, isWaitingForInput |-> FALSE, score |-> 0,
     playerRow |-> startRow, playerCol |-> startCol, cars |-> {},
     revealedComps |-> <<>>, gameInterval |-> "null", carInterval |-> "null",
     gameTimers |-> 0, carTimers |-> 0, playthroughs |-> stored,
     titleScreenActive |-> TRUE, gameOverModalActive |-> FALSE,
     revealModalActive |-> FALSE, revealName |-> NoText, keyListener |-> FALSE]

\* checkPermanentReveals
CheckPermanentReveals(g) ==
    IF PlaythroughsRead(g) >= permanentRevealThreshold
    THEN [g EXCEPT !.revealedComps = <<0, 1, 2, 3>>]
    ELSE g

(***************************************************************************)
(* Timers                                                                  *)
(***************************************************************************)
\* clearInterval(this.gameInterval), guarded by if (this.gameInterval)
ClearGameInterval(g) ==
    IF g.gameInterval = "live"
    THEN [g EXCEPT !.gameInterval = "cleared", !.gameTimers = @ - 1]
    ELSE g

\* clearInterval(this.carInterval), guarded by if (this.carInterval)
ClearCarInterval(g) ==
    IF g.carInterval = "live"
    THEN [g EXCEPT !.carInterval = "cleared", !.carTimers = @ - 1]
    ELSE g

\* startGameLoop: this.gameInterval = setInterval(...)
StartGameLoop(g) ==
    [g EXCEPT !.gameInterval = "live", !.gameTimers = @ + 1]

(***************************************************************************)
(* Cars                                                                    *)
(***************************************************************************)
\* checkCollisions
CheckCollisions(g) ==
    \E car \in g.cars : car.row = g.playerRow /\ car.col = g.playerCol

\* One car of the movement tick's forEach.
MoveCar(car) ==
    IF car.direction = "left"
    THEN [car EXCEPT !.col = IF car.col - 1 < 0 THEN gridCols - 1 ELSE car.col - 1]
    ELSE [car EXCEPT !.col = IF car.col + 1 >= gridCols THEN 0 ELSE car.col + 1]

\* Math.floor(Math.random() * 12) + 1
SpawnRow(draw) == draw + 1

\* Math.random() > 0.5 ? 'left' : 'right'
SpawnDirection(coin) == IF coin THEN "left" ELSE "right"

\* A spawn attempt without the check for a car already in the row.
SpawnAttemptNoCheck(cs, row, direction) ==
    LET col == IF direction = "left" THEN gridCols - 1 ELSE 0
    IN  cs \cup {[row |-> row, col |-> col, direction |-> direction]}

\* One iteration of spawnCars' loop.
SpawnAttempt(cs, row, direction) ==
    LET col == IF direction = "left" THEN gridCols - 1 ELSE 0
    IN  IF ~ \E car \in cs : car.row = row
        THEN cs \cup {[row |-> row, col |-> col, direction |-> direction]}
        ELSE cs

\* The car sets that n iterations of spawnCars' loop can leave, from any of S,
\* with the row draws taken from draws.
RECURSIVE SpawnLoopOver(_, _, _)
SpawnLoopOver(S, n, draws) ==
    IF n = 0 THEN S
    ELSE SpawnLoopOver(UNION {{SpawnAttempt(cs, SpawnRow(r), SpawnDirection(c)) :
                                  r \in draws, c \in CoinDraws} : cs \in S},
                       n - 1, draws)

\* The car sets that n iterations of spawnCars' loop can leave, from any of S.
SpawnLoop(S, n) == SpawnLoopOver(S, n, RowDraws)

\* spawnCars, with the row draws taken from draws.
SpawnCarsOver(g, draws) ==
    {[g EXCEPT !.cars = cs] :
        cs \in UNION {SpawnLoopOver({g.cars}, d + 2, draws) : d \in NumCarsDraws}}

\* spawnCars
SpawnCars(g) ==
    {[g EXCEPT !.cars = cs] :
        cs \in UNION {SpawnLoop({g.cars}, d + 2) : d \in NumCarsDraws}}

\* startCarSpawning
StartCarSpawning(g) ==
    {[h EXCEPT !.carInterval = "live", !.carTimers = @ + 1] : h \in SpawnCars(g)}

(***************************************************************************)
(* Run state                                                               *)
(***************************************************************************)
\* pauseGame that leaves the spawn timer running.
PauseGameKeepSpawning(g) ==
    ClearGameInterval([g EXCEPT !.isPlaying = FALSE])

\* pauseGame
PauseGame(g) ==
    ClearCarInterval(ClearGameInterval([g EXCEPT !.isPlaying = FALSE]))

\* showRevealModal reading the entry after the milestone's own.
ShowRevealModalNextEntry(g, index) ==
    [PauseGame(g) EXCEPT !.revealName = competitions[((index + 1) % 4) + 1],
                         !.revealModalActive = TRUE,
                         !.isWaitingForInput = TRUE]

\* showRevealModal
ShowRevealModal(g, index) ==
    [PauseGame(g) EXCEPT !.revealName = competitions[index + 1],
                         !.revealModalActive = TRUE,
                         !.isWaitingForInput = TRUE]

\* checkCompetitionReveals: the forEach over milestones, from position i on.
RECURSIVE RevealsFrom(_, _)
RevealsFrom(g, i) ==
    IF i > Len(milestones) THEN g
    ELSE RevealsFrom(
            IF g.score = milestones[i] /\ ~Includes(g.revealedComps, i - 1)
            THEN ShowRevealModal(
                    [g EXCEPT !.revealedComps = Append(@, i - 1)], i - 1)
            ELSE g,
            i + 1)

CheckCompetitionReveals(g) == RevealsFrom(g, 1)

\* resumeGame
ResumeGame(g) ==
    StartCarSpawning(StartGameLoop(
        [g EXCEPT !.revealModalActive = FALSE,
                  !.isWaitingForInput = FALSE,
                  !.isPlaying = TRUE]))

\* gameOver without the update of 'playthroughs'.
GameOverNoCount(g) ==
    LET stopped == ClearCarInterval(ClearGameInterval([g EXCEPT !.isPlaying = FALSE]))
    IN  [stopped EXCEPT !.keyListener = FALSE,
                        !.gameOverModalActive = TRUE]

\* gameOver
GameOver(g) ==
    LET stopped == ClearCarInterval(ClearGameInterval([g EXCEPT !.isPlaying = FALSE]))
    IN  [stopped EXCEPT !.keyListener = FALSE,
                        !.playthroughs = PlaythroughsRead(g) + 1,
                        !.gameOverModalActive = TRUE]

\* startGame without the reset of this.cars.
StartGameKeepCars(g) ==
    StartCarSpawning(StartGameLoop(
        [g EXCEPT !.titleScreenActive = FALSE,
                  !.gameOverModalActive = FALSE,
                  !.revealModalActive = FALSE,
                  !.isPlaying = TRUE,
                  !.isWaitingForInput = FALSE,
                  !.score = 0,
                  !.playerRow = startRow,
                  !.playerCol = startCol,
                  !.revealedComps = <<>>,
                  !.keyListener = TRUE]))

\* startGame
StartGame(g) ==
    StartCarSpawning(StartGameLoop(
        [g EXCEPT !.titleScreenActive = FALSE,
                  !.gameOverModalActive = FALSE,
                  !.revealModalActive = FALSE,
                  !.isPlaying = TRUE,
                  !.isWaitingForInput = FALSE,
                  !.score = 0,
                  !.playerRow = startRow,
                  !.playerCol = startCol,
                  !.cars = {},
                  !.revealedComps = <<>>,
                  !.keyListener = TRUE]))

(***************************************************************************)
(* Keyboard                                                                *)
(***************************************************************************)
\* The switch of handleKeyPress: the candidate cell, or NoMove for other keys.
NoMove == [row |-> -1, col |-> -1]
\* The switch without Math.max and Math.min: the cell one step on, on the grid or not.
CandidateUnclamped(g, key) ==
    CASE key = "ArrowUp"    -> [row |-> g.playerRow - 1, col |-> g.playerCol]
      [] key = "ArrowDown"  -> [row |-> g.playerRow + 1, col |-> g.playerCol]
      [] key = "ArrowLeft"  -> [row |-> g.playerRow, col |-> g.playerCol - 1]
      [] key = "ArrowRight" -> [row |-> g.playerRow, col |-> g.playerCol + 1]
      [] OTHER              -> NoMove

Candidate(g, key) ==
    CASE key = "ArrowUp"    -> [row |-> Max(0, g.playerRow - 1), col |-> g.playerCol]
      [] key = "ArrowDown"  -> [row |-> Min(gridRows - 1, g.playerRow + 1), col |-> g.playerCol]
      [] key = "ArrowLeft"  -> [row |-> g.playerRow, col |-> Max(0, g.playerCol - 1)]
      [] key = "ArrowRight" -> [row |-> g.playerRow, col |-> Min(gridCols - 1, g.playerCol + 1)]
      [] OTHER              -> NoMove

\* The infinite-scroll block without the removal of the cars shifted off the grid.
ScrollShiftNoFilter(g) ==
    IF g.score > scrollScore /\ g.playerRow < scrollRow
    THEN [g EXCEPT !.playerRow = @ + scrollShift,
                   !.cars = {[car EXCEPT !.row = @ + scrollShift] : car \in g.cars}]
    ELSE g

\* The infinite-scroll block that shifts the player and leaves the cars where they are.
ScrollShiftPlayerOnly(g) ==
    IF g.score > scrollScore /\ g.playerRow < scrollRow
    THEN [g EXCEPT !.playerRow = @ + scrollShift]
    ELSE g

\* The infinite-scroll block of handleKeyPress.
ScrollShift(g) ==
    IF g.score > scrollScore /\ g.playerRow < scrollRow
    THEN [g EXCEPT !.playerRow = @ + scrollShift,
                   !.cars = {c \in {[car EXCEPT !.row = @ + scrollShift] : car \in g.cars} :
                                c.row < gridRows}]
    ELSE g

\* The move that scores whenever the row did not increase (<= for <).
CommitMoveScoresSideways(g, new) ==
    LET oldRow  == g.playerRow
        moved   == [g EXCEPT !.playerRow = new.row, !.playerCol = new.col]
        scored  == IF new.row <= oldRow
                   THEN CheckCompetitionReveals([moved EXCEPT !.score = @ + 1])
                   ELSE moved
        shifted == ScrollShift(scored)
    IN  IF CheckCollisions(shifted) THEN GameOver(shifted) ELSE shifted

\* The move without the infinite-scroll block.
CommitMoveNoShift(g, new) ==
    LET oldRow  == g.playerRow
        moved   == [g EXCEPT !.playerRow = new.row, !.playerCol = new.col]
        scored  == IF new.row < oldRow
                   THEN CheckCompetitionReveals([moved EXCEPT !.score = @ + 1])
                   ELSE moved
    IN  IF CheckCollisions(scored) THEN GameOver(scored) ELSE scored

\* The body of 'if (newRow !== this.playerRow || newCol !== this.playerCol)'.
CommitMove(g, new) ==
    LET oldRow  == g.playerRow
        moved   == [g EXCEPT !.playerRow = new.row, !.playerCol = new.col]
        scored  == IF new.row < oldRow
                   THEN CheckCompetitionReveals([moved EXCEPT !.score = @ + 1])
                   ELSE moved
        shifted == ScrollShift(scored)
    IN  IF CheckCollisions(shifted) THEN GameOver(shifted) ELSE shifted

\* What a keydown does: "resume", "ignored" (an early return or a blocked move) or "move".
KeyOutcome(g, key) ==
    IF g.isWaitingForInput THEN "resume"
    ELSE IF ~g.isPlaying THEN "ignored"
    ELSE LET new == Candidate(g, key)
         IN  IF new = NoMove THEN "ignored"
             ELSE IF new.row # g.playerRow \/ new.col # g.playerCol THEN "move"
             ELSE "ignored"

\* handleKeyPress without the return after resumeGame: the key is also taken as a move.
HandleKeyPressFallThrough(g, key) ==
    IF g.isWaitingForInput
    THEN {IF KeyOutcome(h, key) = "move" THEN CommitMove(h, Candidate(h, key)) ELSE h :
             h \in ResumeGame(g)}
    ELSE IF KeyOutcome(g, key) = "move" THEN {CommitMove(g, Candidate(g, key))}
    ELSE {g}

\* handleKeyPress
HandleKeyPress(g, key) ==
    CASE KeyOutcome(g, key) = "resume"  -> ResumeGame(g)
      [] KeyOutcome(g, key) = "ignored" -> {g}
      [] KeyOutcome(g, key) = "move"    -> {CommitMove(g, Candidate(g, key))}

(***************************************************************************)
(* Interval callbacks                                                      *)
(***************************************************************************)
\* The movement callback without its collision check.
GameLoopCallbackNoCheck(g) ==
    IF ~g.isPlaying THEN g
    ELSE [g EXCEPT !.cars = {MoveCar(car) : car \in g.cars}]

\* The movement callback without its 'if (!this.isPlaying) return'.
GameLoopCallbackNoGuard(g) ==
    LET moved == [g EXCEPT !.cars = {MoveCar(car) : car \in g.cars}]
    IN  IF CheckCollisions(moved) THEN GameOver(moved) ELSE moved

\* The callback of startGameLoop's setInterval.
GameLoopCallback(g) ==
    IF ~g.isPlaying THEN g
    ELSE LET moved == [g EXCEPT !.cars = {MoveCar(car) : car \in g.cars}]
         IN  IF CheckCollisions(moved) THEN GameOver(moved) ELSE moved

\* The callback of startCarSpawning's setInterval.
CarSpawnCallback(g) ==
    IF g.isPlaying THEN SpawnCars(g) ELSE {g}

(***************************************************************************)
(* Actions                                                                 *)
(***************************************************************************)
\* new Game() and init(), with 'playthroughs' as localStorage holds it.
Loaded(stored) ==
    LET g == CheckPermanentReveals(Constructed(stored))
    IN  /\ isPlaying = g.isPlaying
        /\ isWaitingForInput = g.isWaitingForInput
        /\ score = g.score
        /\ playerRow = g.playerRow
        /\ playerCol = g.playerCol
        /\ cars = g.cars
        /\ revealedComps = g.revealedComps
        /\ gameInterval = g.gameInterval
        /\ carInterval = g.carInterval
        /\ gameTimers = g.gameTimers
        /\ carTimers = g.carTimers
        /\ playthroughs = g.playthroughs
        /\ titleScreenActive = g.titleScreenActive
        /\ gameOverModalActive = g.gameOverModalActive
        /\ revealModalActive = g.revealModalActive
        /\ revealName = g.revealName
        /\ keyListener = g.keyListener
        /\ lastEvent = "load"
        /\ detours = 0
        /\ loadedCount = PlaythroughsRead(g)

\* After new Game() and init().
Init == \E stored \in StoredAtLoad : Loaded(stored)

\* A click on the Play button, which the title screen shows.
ClickPlay ==
    /\ titleScreenActive
    /\ \E h \in StartGame(This) : Commit(h)
    /\ lastEvent' = "start"
    /\ detours' = 0
    /\ UNCHANGED loadedCount

\* A click on the Play Again button, which the game-over modal shows.
ClickPlayAgain ==
    /\ gameOverModalActive
    /\ PlaythroughsRead(This) < MaxPlaythroughs
    /\ \E h \in StartGame(This) : Commit(h)
    /\ lastEvent' = "start"
    /\ detours' = 0
    /\ UNCHANGED loadedCount

\* The keys the explored environment presses in the current state.
Pressed(key) ==
    \/ ~isPlaying
    \/ key = "ArrowUp" /\ score < MaxScore
    \/ key # "ArrowUp" /\ (KeyOutcome(This, key) = "move" => detours < MaxDetours)

\* A keydown event, delivered while the listener is registered.
KeyDown ==
    /\ keyListener
    /\ \E key \in Keys :
        /\ Pressed(key)
        /\ \E h \in HandleKeyPress(This, key) : Commit(h)
        /\ lastEvent' = KeyOutcome(This, key)
        /\ detours' = IF KeyOutcome(This, key) = "move" /\ key # "ArrowUp"
                      THEN detours + 1 ELSE detours
    /\ UNCHANGED loadedCount

\* A movement interval timer fires.
GameTick ==
    /\ gameTimers > 0
    /\ Commit(GameLoopCallback(This))
    /\ lastEvent' = "gameTick"
    /\ UNCHANGED <<detours, loadedCount>>

\* A spawn interval timer fires.
CarTick ==
    /\ carTimers > 0
    /\ \E h \in CarSpawnCallback(This) : Commit(h)
    /\ lastEvent' = "carTick"
    /\ UNCHANGED <<detours, loadedCount>>

Next == ClickPlay \/ ClickPlayAgain \/ KeyDown \/ GameTick \/ CarTick

Spec == Init /\ [][Next]_vars

(***************************************************************************)
(* The page loaded over an earlier visit's storage                         *)
(***************************************************************************)
\* 'playthroughs' as found when the page loads: nothing stored, or the 3 that
\* three finished runs of an earlier visit left.
StoredByEarlierVisits == {NoItem, 3}

InitAfterVisits == \E stored \in StoredByEarlierVisits : Loaded(stored)

SpecAfterVisits == InitAfterVisits /\ [][Next]_vars

(***************************************************************************)
(* Start accepted in whatever state the run is in                          *)
(***************************************************************************)
\* A start is invoked only while fewer than MaxTimers movement timers are live.
MaxTimers == 2
\* ArrowUp is pressed only while the score is below MaxClimb.
MaxClimb == 10

\* startGame invoked through either button's click listener, whatever the
\* page shows.
ClickStart ==
    /\ gameTimers < MaxTimers
    /\ PlaythroughsRead(This) < MaxPlaythroughs
    /\ \E h \in StartGame(This) : Commit(h)
    /\ lastEvent' = "start"
    /\ detours' = 0
    /\ UNCHANGED loadedCount

\* A keydown event of a player who only climbs, delivered while the listener
\* is registered.
KeyDownClimb ==
    /\ keyListener
    /\ \E key \in {"ArrowUp", "Enter"} :
        /\ key = "ArrowUp" /\ isPlaying => score < MaxClimb
        /\ \E h \in HandleKeyPress(This, key) : Commit(h)
        /\ lastEvent' = KeyOutcome(This, key)
    /\ UNCHANGED <<detours, loadedCount>>

\* A keydown event while no listener is registered: no code runs.
KeyDownUnheard ==
    /\ ~keyListener
    /\ lastEvent' = "unheard"
    /\ UNCHANGED <<isPlaying, isWaitingForInput, score, playerRow, playerCol,
                   cars, revealedComps, gameInterval, carInterval, gameTimers,
                   carTimers, playthroughs, titleScreenActive,
                   gameOverModalActive, revealModalActive, revealName,
                   keyListener, detours, loadedCount>>

NextAnyStart == ClickStart \/ KeyDownClimb \/ KeyDownUnheard \/ GameTick \/ CarTick

SpecAnyStart == Init /\ [][NextAnyStart]_vars

(***************************************************************************)
(* The spawn loop, over every row the code can draw                        *)
(***************************************************************************)
\* The largest numCars: Math.floor(Math.random() * 4) + 2 is at most 5.
MaxNumCars == 5

\* The game as the first startGame has left it when spawnCars enters its
\* loop: the fields reset, the movement timer set, the spawn timer not yet.
EnteringSpawnLoop ==
    {[h EXCEPT !.cars = {}, !.carInterval = "null", !.carTimers = 0] :
        h \in StartGame(CheckPermanentReveals(Constructed(NoItem)))}

InitSpawnLoop ==
    \E g \in EnteringSpawnLoop :
        /\ isPlaying = g.isPlaying
        /\ isWaitingForInput = g.isWaitingForInput
        /\ score = g.score
        /\ playerRow = g.playerRow
        /\ playerCol = g.playerCol
        /\ cars = g.cars
        /\ revealedComps = g.revealedComps
        /\ gameInterval = g.gameInterval
        /\ carInterval = g.carInterval
        /\ gameTimers = g.gameTimers
        /\ carTimers = g.carTimers
        /\ playthroughs = g.playthroughs
        /\ titleScreenActive = g.titleScreenActive
        /\ gameOverModalActive = g.gameOverModalActive
        /\ revealModalActive = g.revealModalActive
        /\ revealName = g.revealName
        /\ keyListener = g.keyListener
        /\ lastEvent = "start"
        /\ detours = 0
        /\ loadedCount = 0

\* One iteration of spawnCars' loop.  A road of fewer than MaxNumCars cars is
\* what fewer than MaxNumCars iterations can have left, so one more can follow.
SpawnIteration ==
    /\ Cardinality(cars) < MaxNumCars
    /\ \E r \in AllRowDraws, c \in CoinDraws :
          cars' = SpawnAttempt(cars, SpawnRow(r), SpawnDirection(c))
    /\ UNCHANGED <<isPlaying, isWaitingForInput, score, playerRow, playerCol,
                   revealedComps, gameInterval, carInterval, gameTimers,
                   carTimers, playthroughs, titleScreenActive,
                   gameOverModalActive, revealModalActive, revealName,
                   keyListener, lastEvent, detours, loadedCount>>

NextSpawnLoop == SpawnIteration

SpecSpawnLoop == InitSpawnLoop /\ [][NextSpawnLoop]_vars

(***************************************************************************)
(* A player who roams the whole grid in the first run                      *)
(***************************************************************************)
\* ArrowUp is pressed only while the score is below MaxRoamScore.
MaxRoamScore == 10

\* The arrow key points off the grid from the player's cell.
AtEdge(key) ==
    \/ key = "ArrowUp" /\ playerRow = 0
    \/ key = "ArrowDown" /\ playerRow = 14
    \/ key = "ArrowLeft" /\ playerCol = 0
    \/ key = "ArrowRight" /\ playerCol = 9

\* A keydown event, delivered while the listener is registered; the history
\* tells a move blocked by an edge from the other ignored keys and counts
\* the detours up to MaxDetours.
KeyDownRoam ==
    /\ keyListener
    /\ \E key \in Keys :
        /\ key = "ArrowUp" /\ isPlaying => score < MaxRoamScore
        /\ \E h \in HandleKeyPress(This, key) : Commit(h)
        /\ lastEvent' = IF isPlaying /\ ~isWaitingForInput /\ AtEdge(key)
                        THEN "blocked" ELSE KeyOutcome(This, key)
        /\ detours' = IF KeyOutcome(This, key) = "move" /\ key # "ArrowUp"
                      THEN Min(detours + 1, MaxDetours) ELSE detours
    /\ UNCHANGED loadedCount

NextRoam == ClickPlay \/ KeyDownRoam \/ GameTick \/ CarTick

SpecRoam == Init /\ [][NextRoam]_vars

(***************************************************************************)
(* A player who walks to the left entry column, two rows up                *)
(***************************************************************************)
\* ArrowUp is pressed only while the score is below MaxEntryScore.
MaxEntryScore == 2
\* Values of Math.floor(Math.random() * 12) the spawn timer's callback draws
\* here: the 3 of the start, and 11 for row 12.
EntryRowDraws == {3, 11}

\* A keydown event of ArrowUp or ArrowLeft, delivered while the listener is
\* registered; the history counts the detours up to MaxDetours.
KeyDownToEntry ==
    /\ keyListener
    /\ \E key \in {"ArrowUp", "ArrowLeft"} :
        /\ key = "ArrowUp" /\ isPlaying => score < MaxEntryScore
        /\ \E h \in HandleKeyPress(This, key) : Commit(h)
        /\ lastEvent' = KeyOutcome(This, key)
        /\ detours' = IF KeyOutcome(This, key) = "move" /\ key # "ArrowUp"
                      THEN Min(detours + 1, MaxDetours) ELSE detours
    /\ UNCHANGED loadedCount

\* A spawn interval timer fires, and spawnCars draws its rows from EntryRowDraws.
CarTickEntry ==
    /\ carTimers > 0
    /\ \E h \in (IF isPlaying THEN SpawnCarsOver(This, EntryRowDraws) ELSE {This}) :
          Commit(h)
    /\ lastEvent' = "carTick"
    /\ UNCHANGED <<detours, loadedCount>>

NextEntry == ClickPlay \/ KeyDownToEntry \/ GameTick \/ CarTickEntry

SpecEntry == Init /\ [][NextEntry]_vars

(***************************************************************************)
(* Vocabulary of the properties                                            *)
(***************************************************************************)
\* The run state of the specification's state machine, read off the page.
RunState ==
    IF gameOverModalActive THEN "GameOver"
    ELSE IF isWaitingForInput THEN "PausedForReveal"
    ELSE IF isPlaying THEN "Playing"
    ELSE "Idle"

\* Some car is on the player's cell.
Collision == \E car \in cars : car.row = playerRow /\ car.col = playerCol

\* No movement timer and no spawn timer is live.
TicksStopped == gameTimers = 0 /\ carTimers = 0

\* A movement timer and a spawn timer are live.
TicksRunning == gameTimers > 0 /\ carTimers > 0

\* The stored play count, 0 when nothing is stored.
PlayCount == IF playthroughs = NoItem THEN 0 ELSE playthroughs

(***************************************************************************)
(* C1: a movement tick or a committed move, taken while Playing, that ends *)
(* with a car on the player's cell leaves the run in GameOver with both    *)
(* interval timers stopped.                                                *)
(***************************************************************************)
C1_CollisionEndsRun ==
    [][(isPlaying /\ lastEvent' \in {"gameTick", "move"} /\ Collision')
          => (RunState' = "GameOver" /\ TicksStopped')]_vars

\* A movement tick drove a car onto the player and the run ended.
C1_Witness ==
    /\ lastEvent = "gameTick"
    /\ Collision
    /\ RunState = "GameOver"
    /\ TicksStopped

(***************************************************************************)
(* C2: the stored play count goes up by exactly one on every step that     *)
(* enters GameOver and on no other step, and GameOver is left only by a    *)
(* start of a new run, so a run increments it at most once.                *)
(***************************************************************************)
C2_CountedOncePerGameOver ==
    [][/\ PlayCount' = IF RunState # "GameOver" /\ RunState' = "GameOver"
                       THEN PlayCount + 1 ELSE PlayCount
       /\ (RunState = "GameOver" /\ RunState' # "GameOver") => lastEvent' = "start"]_vars

\* A second run has ended: the count went from nothing stored to 2.
C2_Witness ==
    /\ RunState = "GameOver"
    /\ playthroughs = 2

(***************************************************************************)
(* C3: a committed upward move made while Playing that raises the score to *)
(* 10, 20, 30 or 40 with that milestone's index not yet revealed leaves    *)
(* the run in PausedForReveal: both timers stopped, the index revealed,    *)
(* the cars kept (but for the scroll-shift) and the player on the cell it  *)
(* moved to.                                                               *)
(***************************************************************************)
C3_MilestonePauses ==
    [][\A i \in 0 .. 3 :
          (/\ isPlaying
           /\ lastEvent' = "move"
           /\ score' = score + 1
           /\ score' = 10 * (i + 1)
           /\ ~Includes(revealedComps, i))
          => (/\ RunState' = "PausedForReveal"
              /\ TicksStopped'
              /\ Includes(revealedComps', i)
              /\ playerCol' = playerCol
              /\ playerRow' \in {playerRow - 1, playerRow - 1 + 10}
              /\ (cars' = cars \/ (score' > 13 /\ playerRow - 1 < 5)))]_vars

(***************************************************************************)
(* C4: while PausedForReveal, a keydown of any key returns the run to      *)
(* Playing and is not taken as a move: the player's cell, the score and    *)
(* the revealed indices are unchanged and both timers run again.           *)
(***************************************************************************)
C4_AnyKeyResumes ==
    [][(RunState = "PausedForReveal" /\ lastEvent' \in {"resume", "ignored", "move"})
          => (/\ lastEvent' = "resume"
              /\ RunState' = "Playing"
              /\ TicksRunning'
              /\ UNCHANGED <<playerRow, playerCol, score, revealedComps>>)]_vars

\* A key press has resumed the run paused at the first milestone.
C4_Witness ==
    /\ lastEvent = "resume"
    /\ RunState = "Playing"
    /\ score = 10
    /\ revealedComps = <<0>>
    /\ TicksRunning

(***************************************************************************)
(* C5: while the run is PausedForReveal no movement tick and no spawn tick *)
(* fires, and the cars, the player's cell and the score do not change for  *)
(* as long as it stays paused.                                             *)
(***************************************************************************)
C5_NoTickWhilePaused ==
    [][RunState = "PausedForReveal"
          => (/\ lastEvent' \notin {"gameTick", "carTick"}
              /\ (RunState' = "PausedForReveal"
                     => UNCHANGED <<cars, playerRow, playerCol, score>>))]_vars

\* The run is paused for a reveal with a car on the road and no timer live.
C5_Witness ==
    /\ RunState = "PausedForReveal"
    /\ cars # {}
    /\ TicksStopped

(***************************************************************************)
(* C6: lane exclusivity: in every reachable state no row holds more than   *)
(* one car.                                                                *)
(***************************************************************************)
C6_LaneExclusivity ==
    \A c1 \in cars : \A c2 \in cars : c1.row = c2.row => c1 = c2

\* A spawn tick has run with a car already on the road, and two rows are occupied.
C6_Witness ==
    /\ lastEvent = "carTick"
    /\ \E c1 \in cars : \E c2 \in cars : c1.row # c2.row

(***************************************************************************)
(* C7: no car is ever on a non-lane row: every car's row is in 1 .. 13.    *)
(***************************************************************************)
C7_CarsOnLaneRows ==
    \A car \in cars : car.row >= 1 /\ car.row <= 13

(***************************************************************************)
(* C8: within a run the score never decreases: a start sets it to 0, a     *)
(* committed move changes it exactly when the new row is above the old one *)
(* (the player's row drops by one, or by one and then scroll-shifts by     *)
(* ten), and then by +1, and no other event changes it.                    *)
(***************************************************************************)
C8_ScoreMonotone ==
    [][LET up == playerCol' = playerCol
                 /\ playerRow' \in {playerRow - 1, playerRow - 1 + 10}
       IN  CASE lastEvent' = "start" -> score' = 0
             [] lastEvent' = "move"  -> score' = IF up THEN score + 1 ELSE score
             [] OTHER                -> score' = score]_vars

\* A sideways or downward move has been committed in a run that has scored.
C8_Witness ==
    /\ lastEvent = "move"
    /\ detours > 0
    /\ score > 0

(***************************************************************************)
(* C9: a milestone fires at most once per run: the revealed indices never  *)
(* hold an index twice, they change only by a start (cleared) or by a      *)
(* move that pauses for a reveal, and such a move appends exactly the      *)
(* index i of the threshold 10 * (i + 1) the score has reached and shows   *)
(* the content entry i.                                                    *)
(***************************************************************************)
C9_MilestoneOncePerRun ==
    [][/\ \A j \in 1 .. Len(revealedComps') : \A k \in 1 .. Len(revealedComps') :
              revealedComps'[j] = revealedComps'[k] => j = k
       /\ revealedComps' # revealedComps
              => \/ lastEvent' = "start" /\ revealedComps' = <<>>
                 \/ /\ lastEvent' = "move"
                    /\ isWaitingForInput'
                    /\ \E i \in 0 .. 3 :
                          /\ revealedComps' = Append(revealedComps, i)
                          /\ score' = 10 * (i + 1)
                          /\ revealName' = competitions[i + 1]
       /\ (isWaitingForInput' /\ ~isWaitingForInput) => revealedComps' # revealedComps]_vars

\* The second milestone has fired in a run in which the first had fired.
C9_Witness ==
    /\ RunState = "PausedForReveal"
    /\ revealedComps = <<0, 1>>
    /\ score = 20
    /\ revealName = competitions[2]

(***************************************************************************)
(* C10: a committed move that triggers the scroll-shift (score > 13 and    *)
(* row < 5 after the move's score update) leaves the player on its         *)
(* pre-shift row + 10, below row 15; every car whose row + 10 is below 15  *)
(* is kept with its row raised by 10, and every other car is removed.      *)
(***************************************************************************)
C10_ScrollShift ==
    [][\A key \in Keys :
          LET new == Candidate(This, key)
              s1  == IF new.row < playerRow THEN score + 1 ELSE score
          IN  (/\ isPlaying
               /\ lastEvent' = "move"
               /\ <<new.row, new.col>> # <<playerRow, playerCol>>
               /\ playerCol' = new.col
               /\ playerRow' \in {new.row, new.row + 10}
               /\ s1 > 13
               /\ new.row < 5)
              => (/\ playerRow' = new.row + 10
                  /\ playerRow' < 15
                  /\ \A c \in cars :
                        ([c EXCEPT !.row = c.row + 10] \in cars') <=> (c.row + 10 < 15)
                  /\ \A d \in cars' :
                        d.row < 15 /\ [d EXCEPT !.row = d.row - 10] \in cars)]_vars

\* Fourteen moves straight up have scroll-shifted the player from row 0 to
\* row 10, and a car came along from row 4 to row 14.
C10_Witness ==
    /\ lastEvent = "move"
    /\ detours = 0
    /\ score = 14
    /\ playerRow = 10
    /\ \E car \in cars : car.row = 14

(***************************************************************************)
(* C11: a start of a run from Idle or from GameOver leaves the run Playing *)
(* with score 0, the player on (14, 4), no reveal input awaited, one       *)
(* movement timer and one spawn timer live, and only freshly spawned cars  *)
(* on the road: between one and five, each on a lane row of its own and on *)
(* the entry column of its direction (9 going left, 0 going right).        *)
(***************************************************************************)
C11_StartRun ==
    [][(RunState \in {"Idle", "GameOver"} /\ lastEvent' = "start")
          => (/\ RunState' = "Playing"
              /\ score' = 0
              /\ playerRow' = 14 /\ playerCol' = 4
              /\ ~isWaitingForInput'
              /\ gameInterval' = "live" /\ gameTimers' = 1
              /\ carInterval' = "live" /\ carTimers' = 1
              /\ Cardinality(cars') \in 1 .. 5
              /\ \A car \in cars' :
                    /\ car.row \in 1 .. 13
                    /\ car.col = IF car.direction = "left" THEN 9 ELSE 0
                    /\ \A other \in cars' : other.row = car.row => other = car)]_vars

\* Play Again has started a second run after a run that ended on a car.
C11_Witness ==
    /\ lastEvent = "start"
    /\ playthroughs = 1
    /\ RunState = "Playing"
    /\ score = 0
    /\ cars # {}
    /\ TicksRunning

(***************************************************************************)
(* C12: when the stored play count was 3 or more as the page loaded, the   *)
(* revealed indices are all of 0 .. 3 after the load and after every start *)
(* of a run; when it was below 3, they are empty after the load and after  *)
(* every start of a run.                                                   *)
(***************************************************************************)
C12_Preseeded ==
    lastEvent \in {"load", "start"}
        => {revealedComps[i] : i \in 1 .. Len(revealedComps)}
              = IF loadedCount >= 3 THEN 0 .. 3 ELSE {}

(***************************************************************************)
(* C13: in Idle and in GameOver every event but a start of a run (a        *)
(* keydown, a tick of a movement timer, a tick of a spawn timer) leaves    *)
(* the score, the player's cell, the cars, the revealed indices, the       *)
(* stored play count and the run state as they are; and so does a keydown  *)
(* of a non-arrow key while Playing.                                       *)
(***************************************************************************)
C13_InertOutsideARun ==
    [][(\/ RunState \in {"Idle", "GameOver"} /\ lastEvent' # "start"
        \/ RunState = "Playing" /\ lastEvent' = "ignored")
          => (/\ UNCHANGED <<score, playerRow, playerCol, cars, revealedComps,
                             playthroughs>>
              /\ RunState' = RunState)]_vars

\* A spawn timer that an earlier start left behind has fired in GameOver.
C13_Witness ==
    /\ RunState = "GameOver"
    /\ lastEvent = "carTick"
    /\ cars # {}

(***************************************************************************)
(* C14: the rows in which a spawn attempt can create a new car are exactly *)
(* the empty rows among the lane rows 1 .. 13.                             *)
(***************************************************************************)
C14_SpawnRows ==
    {r \in 0 .. 14 :
        \E d \in AllRowDraws, c \in CoinDraws :
           \E car \in SpawnAttempt(cars, SpawnRow(d), SpawnDirection(c)) \ cars :
              car.row = r}
       = {r \in 1 .. 13 : ~ \E car \in cars : car.row = r}

(***************************************************************************)
(* C15: the player is always on the grid (row in 0 .. 14, column in        *)
(* 0 .. 9), and an arrow key that points off the grid from the player's    *)
(* cell while Playing changes nothing: not the player's cell, the score,   *)
(* the revealed indices, the cars or the run state.                        *)
(***************************************************************************)
C15_PlayerStaysOnGrid ==
    [][/\ playerRow' \in 0 .. 14
       /\ playerCol' \in 0 .. 9
       /\ lastEvent' = "blocked"
             => (/\ UNCHANGED <<playerRow, playerCol, score, revealedComps, cars>>
                 /\ RunState' = RunState)]_vars

\* ArrowLeft has been pressed with the player on column 0, above the start row.
C15_Witness ==
    /\ lastEvent = "blocked"
    /\ playerCol = 0
    /\ playerRow < 14
    /\ RunState = "Playing"

(***************************************************************************)
(* C16: a scroll-shift neither creates nor hides a collision: after a move *)
(* that scroll-shifted (the only moves that take the player more than one  *)
(* row down), a car is on the player's cell exactly if, before the shift,  *)
(* a car was on the cell the player had moved to, ten rows further up.     *)
(***************************************************************************)
C16_ShiftKeepsCollision ==
    [][(lastEvent' = "move" /\ playerRow' > playerRow + 1)
          => (Collision' <=> \E car \in cars :
                                car.row = playerRow' - 10 /\ car.col = playerCol')]_vars

\* The move to score 20 stepped onto a car on row 4 and scroll-shifted: the
\* car came along to row 14 and the run ended.
C16_Witness ==
    /\ lastEvent = "move"
    /\ score = 20
    /\ playerRow = 14
    /\ Collision
    /\ gameOverModalActive

(***************************************************************************)
(* C17: in every state in which the run is Playing, no car is on the       *)
(* player's cell.                                                          *)
(***************************************************************************)
C17_NoCarOnPlayerWhilePlaying ==
    RunState = "Playing" => ~Collision

(***************************************************************************)
(* C18: the run never waits for the key that continues after a reveal      *)
(* while it is over: in no state is the waiting-for-input flag set with    *)
(* the game-over modal shown.                                              *)
(***************************************************************************)
C18_NeverPausedAndOver ==
    ~(isWaitingForInput /\ gameOverModalActive)

(***************************************************************************)
(* C19: whatever the state a start is invoked in, at most one movement     *)
(* timer and at most one spawn timer are live: one of each while Playing,  *)
(* none in PausedForReveal and in GameOver.                                *)
(***************************************************************************)
C19_OneTimerOfEachKind ==
    /\ gameTimers <= 1
    /\ carTimers <= 1
    /\ RunState = "Playing" => gameTimers = 1 /\ carTimers = 1
    /\ RunState \in {"PausedForReveal", "GameOver"} => gameTimers = 0 /\ carTimers = 0

(***************************************************************************)
(* C20: after every event, a score above 13 finds the player on row 5 or   *)
(* below it (row >= 5): the move that would leave the player on rows       *)
(* 0 .. 4 with such a score scroll-shifts it, the move to a milestone      *)
(* included.                                                               *)
(***************************************************************************)
C20_HighScoreLowRows ==
    score > 13 => playerRow >= 5

\* The move to score 20 reached row 4, paused for the second reveal and
\* scroll-shifted the player to row 14.
C20_Witness ==
    /\ lastEvent = "move"
    /\ RunState = "PausedForReveal"
    /\ score = 20
    /\ revealName = competitions[2]
    /\ playerRow = 14

====
